---- MODULE Spec2Model ----
(***************************************************************************)
(* Epanet22Simulator (wntr/sim/epanet22.py): the run orchestration of one  *)
(* simulator instance.  run_sim is modelled statement by statement; every  *)
(* call into the EPANET toolkit is one step, so that the order of the      *)
(* stage calls, the handle they are issued on and the status code each     *)
(* returns are observable.  The toolkit and the binary reader are external *)
(* collaborators; their effect on a project and on the files is modelled   *)
(* from the design document.                                               *)
(***************************************************************************)
EXTENDS Integers, Sequences, FiniteSets, TLC

\* ------------------------------------------------------------------ bounds
\* Number of run_sim invocations on the simulator instance when the solver
\* may return any status code at any stage.
MaxRuns == 1
\* Number of run_sim invocations when the solver is deterministic.
MaxCacheRuns == 3
\* Number of run_sim invocations when toolkit calls may raise.
MaxRaisingRuns == 2

\* ------------------------------------------------------- program constants
\* Pressures and the exponent are in hundredths (17.75 -> 1775).
PminDefault == 1775
PnomDefault == 2196
PddExponent == 50
\* Demand model selector passed to dmnd_setmodel (1 = pressure dependent).
PddModel == 1

\* Value of a parameter that was not supplied (Python None).
None == "None"

\* -------------------------------------------------------------- inputs
\* mode strings, as sequences of characters
ModePDD == <<"P", "D", "D">>
Modepdd == <<"p", "d", "d">>
ModeDD == <<"D", "D">>
\* line 51: the mode of a simulator constructed without one
ModeDefaultDD == ModeDD
ModeDefault == ModePDD
Modes == {ModeDefault, ModePDD, Modepdd, ModeDD}
PminValues == {PminDefault, 3000}
PnomValues == {PnomDefault}
Prefixes == {"temp", "net"}
HydFiles == {None, "temp.hyd"}

\* Status codes of the toolkit: 0 success, 1..99 advisory, >= 100 fatal.
CodeOk == 0
CodeWarn == 1
CodeFatal == 200
Codes == {CodeOk, CodeWarn, CodeFatal}
IsWarning(c) == c >= 1 /\ c <= 99
IsFatal(c) == c >= 100

\* ------------------------------------------------------ pure functions
\* str.upper() on the characters that occur in a mode string
UpperChar(ch) ==
    CASE ch = "p" -> "P"
      [] ch = "d" -> "D"
      [] OTHER -> ch
\* the mode compared as written
UpperIdentity(s) == s
Upper(s) == [i \in 1..Len(s) |-> UpperChar(s[i])]

RECURSIVE MaxOf(_)
MaxOf(s) ==
    IF s = <<>> THEN 0
    ELSE LET m == MaxOf(Tail(s)) IN IF Head(s) > m THEN Head(s) ELSE m

\* ---------------------------------------------------------- file system
\* The files whose content a later stage or a later run reads.
Paths == {p \o e : p \in Prefixes, e \in {".inp", ".bin", ".hyd"}}
             \cup (HydFiles \ {None})
Absent == [kind |-> "absent"]
InpData == [kind |-> "inp"]
\* demand model of a project: the solver default is demand driven
DefaultDemand == [model |-> 0, pmin |-> 0, pnom |-> 0, exp |-> 0]
\* deterministic solver: hydraulics are a function of the network and the
\* demand model, quality results a function of the hydraulics
HydData(dm) == [kind |-> "hyd", demand |-> dm]
ResData(h) == [kind |-> "res", hyd |-> h.demand]
NoHyd == [kind |-> "nohyd"]
DecodeError == [kind |-> "DecodeError"]
\* run_sim has not returned
NoResult == [kind |-> "none"]

\* a project as the toolkit holds it
NewProject ==
    [opened |-> FALSE, closed |-> FALSE, demand |-> DefaultDemand,
     hyd |-> NoHyd, qual |-> FALSE, out |-> None]

VARIABLES
    mode, pmin, pnom,         \* set by __init__
    errcode, errcodelist, Warnflag, Errflag,   \* class attributes
    pc,                       \* position in run_sim
    file_prefix, save_hyd, use_hyd, hydfile,   \* arguments of run_sim
    hydfile_arg,              \* hydfile as the caller passed it
    inpfile, rptfile, outfile, ph,             \* locals of run_sim
    calls,                    \* toolkit stage calls issued by the current run
    reads,                    \* reader.read calls issued by the current run
    result,                   \* value returned by run_sim, None until it returns
    projects,                 \* toolkit: project of every handle created
    files,                    \* file system
    runs,                     \* finished invocations of run_sim
    solver                    \* "free": any code at any stage; "deterministic";
                              \* "raising": deterministic, and a call may raise

vars == <<mode, pmin, pnom, errcode, errcodelist, Warnflag, Errflag, pc,
          file_prefix, save_hyd, use_hyd, hydfile, inpfile, rptfile, outfile,
          ph, calls, reads, result, projects, files, runs, solver,
          hydfile_arg>>

init_vars == <<mode, pmin, pnom, solver>>
attr_flags == <<errcodelist, Warnflag, Errflag>>
arg_vars == <<file_prefix, save_hyd, use_hyd, hydfile_arg>>
local_vars == <<inpfile, rptfile, outfile, ph>>

\* ---------------------------------------------------------------- Init
\* class attributes (lines 42-49) and __init__ (lines 51-59)
Init ==
    /\ mode \in Modes
    /\ pmin \in PminValues
    /\ pnom \in PnomValues
    /\ errcode = 0
    /\ errcodelist = <<>>
    /\ Warnflag = FALSE
    /\ Errflag = FALSE
    /\ pc = "idle"
    /\ file_prefix = None /\ save_hyd = FALSE /\ use_hyd = FALSE
    /\ hydfile = None /\ hydfile_arg = None
    /\ inpfile = None /\ rptfile = None /\ outfile = None /\ ph = 0
    /\ calls = <<>>
    /\ reads = <<>>
    /\ result = NoResult
    /\ projects = <<>>
    /\ files = [p \in Paths |-> Absent]
    /\ runs = 0
    /\ solver \in {"free", "deterministic", "raising"}

\* ------------------------------------------------------------- toolkit
Call(stage, args, code) ==
    [stage |-> stage, ph |-> ph, args |-> args, code |-> code]
Issue(stage, args, code) == calls' = Append(calls, Call(stage, args, code))
Proj == projects[ph]
SetProj(p) == projects' = [projects EXCEPT ![ph] = p]
\* The codes a stage may return: anything when the solver is free; when it
\* is deterministic, success if the stage can be carried out, else fatal.
SolverCodes(ok) ==
    IF solver = "free"
    THEN Codes
    ELSE {IF ok THEN CodeOk ELSE CodeFatal}
\* what each stage needs to be carried out
CanOpen == files[inpfile] = InpData /\ ~Proj.opened /\ ~Proj.closed
CanLoad == Proj.opened /\ files[hydfile].kind = "hyd"
CanConfigure == Proj.opened
CanSolve == Proj.opened
CanSave == Proj.opened /\ Proj.hyd # NoHyd
CanQuality == Proj.opened /\ Proj.hyd # NoHyd
CanReport == Proj.opened
CanClose == ~Proj.closed
\* an aborted stage (fatal code) leaves the project and the files alone
Done(ok, code) == ok /\ ~IsFatal(code)
\* reader.read: decodes the binary output file
ReaderRead(path) ==
    IF files[path].kind = "res" THEN files[path] ELSE DecodeError

\* ------------------------------------------------------------- run_sim
RunLimit ==
    CASE solver = "free" -> MaxRuns
      [] solver = "deterministic" -> MaxCacheRuns
      [] OTHER -> MaxRaisingRuns

\* self.errcode = <status code of the stage call>
RecordWorst(code) == errcode' = IF code > errcode THEN code ELSE errcode
Record(code) == errcode' = code

\* line 98: if save_hyd
DoSaveUnlessFatal == save_hyd /\ ~IsFatal(errcode)
DoSave == save_hyd

\* lines 61-86: bind the arguments, write the input file, create the handle
RunSim(fp, sh, uh, hf) ==
    /\ pc \in {"idle", "raised"}
    /\ runs < RunLimit
    /\ file_prefix' = fp /\ save_hyd' = sh /\ use_hyd' = uh /\ hydfile' = hf
    /\ hydfile_arg' = hf
    /\ inpfile' = fp \o ".inp"
    /\ files' = [files EXCEPT ![fp \o ".inp"] = InpData]
    /\ ph' = Len(projects) + 1
    /\ projects' = Append(projects, NewProject)
    /\ rptfile' = fp \o ".rpt"
    /\ outfile' = fp \o ".bin"
    /\ calls' = <<>>
    /\ reads' = <<>>
    /\ result' = NoResult
    /\ pc' = "open"
    /\ UNCHANGED <<init_vars, errcode, attr_flags, runs>>

\* lines 87-89: hydfile is None
OpenProject ==
    /\ pc = "open"
    /\ hydfile = None
    /\ hydfile' = file_prefix \o ".hyd"
    /\ \E code \in SolverCodes(CanOpen) :
       /\ Issue("Open", <<inpfile, rptfile, outfile>>, code)
       /\ Record(code)
       /\ IF Done(CanOpen, code)
          THEN /\ SetProj([Proj EXCEPT !.opened = TRUE, !.out = outfile])
               /\ files' = [files EXCEPT ![outfile] = Absent]
          ELSE UNCHANGED <<projects, files>>
       /\ pc' = "hyd"
       /\ UNCHANGED <<init_vars, attr_flags, arg_vars, local_vars, reads,
                      result, runs>>

\* line 87: hydfile is not None, the whole block is skipped
SkipOpen ==
    /\ pc = "open"
    /\ hydfile # None
    /\ pc' = "hyd"
    /\ UNCHANGED <<init_vars, errcode, attr_flags, arg_vars, hydfile,
                   local_vars, calls, reads, result, projects, files, runs>>

\* lines 90-92
LoadHydraulics ==
    /\ pc = "hyd"
    /\ use_hyd
    /\ \E code \in SolverCodes(CanLoad) :
       /\ Issue("LoadHydraulics", <<hydfile>>, code)
       /\ Record(code)
       /\ IF Done(CanLoad, code)
          THEN SetProj([Proj EXCEPT !.hyd = files[hydfile]])
          ELSE UNCHANGED projects
       /\ pc' = "save"
       /\ UNCHANGED <<init_vars, attr_flags, arg_vars, hydfile, local_vars,
                      reads, result, files, runs>>

\* lines 93-95: the return value of dmnd_setmodel is dropped
ConfigureDemand ==
    /\ pc = "hyd"
    /\ ~use_hyd
    /\ Upper(mode) = ModePDD
    /\ \E code \in SolverCodes(CanConfigure) :
       /\ Issue("ConfigureDemand", <<PddModel, pmin, pnom, PddExponent>>, code)
       /\ IF Done(CanConfigure, code)
          THEN SetProj([Proj EXCEPT !.demand =
                   [model |-> PddModel, pmin |-> pmin, pnom |-> pnom,
                    exp |-> PddExponent]])
          ELSE UNCHANGED projects
       /\ pc' = "solve"
       /\ UNCHANGED <<init_vars, errcode, attr_flags, arg_vars, hydfile,
                      local_vars, reads, result, files, runs>>

\* hydr_solve issued again after a non-zero code
SolveHydraulicsRetry ==
    /\ \/ pc = "solve"
       \/ pc = "hyd" /\ ~use_hyd /\ Upper(mode) # ModePDD
    /\ \E code \in SolverCodes(CanSolve) :
       /\ Issue("SolveHydraulics", <<>>, code)
       /\ Record(code)
       /\ IF Done(CanSolve, code)
          THEN SetProj([Proj EXCEPT !.hyd = HydData(Proj.demand)])
          ELSE UNCHANGED projects
       /\ pc' = IF code # CodeOk THEN "solve" ELSE "save"
       /\ UNCHANGED <<init_vars, attr_flags, arg_vars, hydfile, local_vars,
                      reads, result, files, runs>>

\* lines 93-97
SolveHydraulics ==
    /\ \/ pc = "solve"
       \/ pc = "hyd" /\ ~use_hyd /\ Upper(mode) # ModePDD
    /\ \E code \in SolverCodes(CanSolve) :
       /\ Issue("SolveHydraulics", <<>>, code)
       /\ Record(code)
       /\ IF Done(CanSolve, code)
          THEN SetProj([Proj EXCEPT !.hyd = HydData(Proj.demand)])
          ELSE UNCHANGED projects
       /\ pc' = "save"
       /\ UNCHANGED <<init_vars, attr_flags, arg_vars, hydfile, local_vars,
                      reads, result, files, runs>>

\* lines 98-100
SaveHydraulics ==
    /\ pc = "save"
    /\ DoSave
    /\ \E code \in SolverCodes(CanSave) :
       /\ Issue("SaveHydraulics", <<hydfile>>, code)
       /\ Record(code)
       /\ IF Done(CanSave, code)
          THEN files' = [files EXCEPT ![hydfile] = Proj.hyd]
          ELSE UNCHANGED files
       /\ pc' = "qual"
       /\ UNCHANGED <<init_vars, attr_flags, arg_vars, hydfile, local_vars,
                      reads, result, projects, runs>>

\* lines 101-102
SolveQuality ==
    /\ \/ pc = "qual"
       \/ pc = "save" /\ ~DoSave
    /\ \E code \in SolverCodes(CanQuality) :
       /\ Issue("SolveQuality", <<>>, code)
       /\ Record(code)
       /\ IF Done(CanQuality, code)
          THEN /\ SetProj([Proj EXCEPT !.qual = TRUE])
               /\ files' = [files EXCEPT ![Proj.out] = ResData(Proj.hyd)]
          ELSE UNCHANGED <<projects, files>>
       /\ pc' = "report"
       /\ UNCHANGED <<init_vars, attr_flags, arg_vars, hydfile, local_vars,
                      reads, result, runs>>

\* the report skipped when the stage before it ended on a fatal code
WriteReportUnlessFatal ==
    /\ pc = "report"
    /\ \E code \in SolverCodes(CanReport) :
       /\ IF IsFatal(errcode)
          THEN UNCHANGED <<calls, errcode>>
          ELSE /\ Issue("WriteReport", <<>>, code)
               /\ Record(code)
       /\ pc' = "close"
       /\ UNCHANGED <<init_vars, attr_flags, arg_vars, hydfile, local_vars,
                      reads, result, projects, files, runs>>

\* lines 103-104
WriteReport ==
    /\ pc = "report"
    /\ \E code \in SolverCodes(CanReport) :
       /\ Issue("WriteReport", <<>>, code)
       /\ Record(code)
       /\ pc' = "close"
       /\ UNCHANGED <<init_vars, attr_flags, arg_vars, hydfile, local_vars,
                      reads, result, projects, files, runs>>

\* Close issued only when the stages before it did not end on a fatal code
CloseUnlessFatal ==
    /\ pc = "close"
    /\ \E code \in SolverCodes(CanClose) :
       /\ IF IsFatal(errcode)
          THEN UNCHANGED <<calls, errcode, projects>>
          ELSE /\ Issue("Close", <<>>, code)
               /\ Record(code)
               /\ SetProj([NewProject EXCEPT !.closed = TRUE])
       /\ pc' = "read"
       /\ UNCHANGED <<init_vars, attr_flags, arg_vars, hydfile, local_vars,
                      reads, result, files, runs>>

\* lines 105-106: the toolkit releases the project
CloseProject ==
    /\ pc = "close"
    /\ \E code \in SolverCodes(CanClose) :
       /\ Issue("Close", <<>>, code)
       /\ Record(code)
       /\ SetProj([NewProject EXCEPT !.closed = TRUE])
       /\ pc' = "read"
       /\ UNCHANGED <<init_vars, attr_flags, arg_vars, hydfile, local_vars,
                      reads, result, files, runs>>

\* the results read only when the run did not end on a fatal code
ReadUnlessFatal ==
    /\ pc = "read"
    /\ IF IsFatal(errcode)
       THEN UNCHANGED <<reads, result>>
       ELSE /\ reads' = Append(reads, outfile)
            /\ result' = ReaderRead(outfile)
    /\ runs' = runs + 1
    /\ pc' = "idle"
    /\ UNCHANGED <<init_vars, errcode, attr_flags, arg_vars, hydfile,
                   local_vars, calls, projects, files>>

\* line 108: return self.reader.read(outfile)
ReadResults ==
    /\ pc = "read"
    /\ reads' = Append(reads, outfile)
    /\ result' = ReaderRead(outfile)
    /\ runs' = runs + 1
    /\ pc' = "idle"
    /\ UNCHANGED <<init_vars, errcode, attr_flags, arg_vars, hydfile,
                   local_vars, calls, projects, files>>

\* A toolkit call between proj_create and the return of proj_close raises
\* instead of returning a code: run_sim has no handler, the exception
\* reaches the caller and the statements after the call are not executed.
StageRaises ==
    /\ solver = "raising"
    /\ \/ pc \in {"hyd", "solve", "save", "qual", "report", "close"}
       \/ pc = "open" /\ hydfile = None
    /\ pc' = "raised"
    /\ runs' = runs + 1
    /\ UNCHANGED <<init_vars, errcode, attr_flags, arg_vars, hydfile,
                   local_vars, calls, reads, result, projects, files>>

Next ==
    \/ \E fp \in Prefixes, sh \in BOOLEAN, uh \in BOOLEAN, hf \in HydFiles :
          RunSim(fp, sh, uh, hf)
    \/ OpenProject
    \/ SkipOpen
    \/ LoadHydraulics
    \/ ConfigureDemand
    \/ SolveHydraulics
    \/ SaveHydraulics
    \/ SolveQuality
    \/ WriteReport
    \/ CloseProject
    \/ ReadResults
    \/ StageRaises

Spec == Init /\ [][Next]_vars

\* ------------------------------------------------- observing a run
Stages == [i \in DOMAIN calls |-> calls[i].stage]
StageCodes == [i \in DOMAIN calls |-> calls[i].code]
Indices(st) == {i \in DOMAIN calls : calls[i].stage = st}
Issued(st) == Indices(st) # {}
\* every stage call of the run has been issued
AllIssued == pc = "read" \/ (pc = "idle" /\ runs > 0)
\* run_sim has returned
Returned == pc = "idle" /\ runs > 0
IsPDD == Upper(mode) = ModePDD
IfSeq(b, s) == IF b THEN s ELSE <<>>
\* the stage sequence of a run that solves hydraulics fresh
FreshStages ==
    <<"Open">> \o IfSeq(IsPDD, <<"ConfigureDemand">>)
        \o <<"SolveHydraulics">> \o IfSeq(save_hyd, <<"SaveHydraulics">>)
        \o <<"SolveQuality", "WriteReport", "Close">>
\* the stage sequence of a run that loads hydraulics
LoadStages ==
    <<"Open", "LoadHydraulics">> \o IfSeq(save_hyd, <<"SaveHydraulics">>)
        \o <<"SolveQuality", "WriteReport", "Close">>
HasFatal == \E i \in DOMAIN calls : IsFatal(calls[i].code)
HasWarning == \E i \in DOMAIN calls : IsWarning(calls[i].code)

\* C1: a run with use_hyd = false issues exactly Open, ConfigureDemand only
\* in pressure-dependent mode, SolveHydraulics, SaveHydraulics only if
\* save_hyd, SolveQuality, WriteReport, Close, in that order, whether or not
\* hydfile is given and whatever codes the solver returns.
C1_FreshStageSequence ==
    (AllIssued /\ ~use_hyd) => Stages = FreshStages

\* The same with hydfile left out: the order holds when no explicit
\* hydraulics path is supplied (the run then starts with Open).
FreshStageSequenceDefaultPath ==
    (AllIssued /\ ~use_hyd /\ Issued("Open")) => Stages = FreshStages

\* C2: Open is the first stage call issued on the handle of every run, also
\* with an explicit hydraulics path: use_hyd with hydfile "temp.hyd" and no
\* save issues exactly Open, LoadHydraulics, SolveQuality, WriteReport, Close.
C2_OpenFirst ==
    /\ calls # <<>> => calls[1].stage = "Open"
    /\ (AllIssued /\ use_hyd /\ ~save_hyd /\ hydfile = "temp.hyd")
          => Stages = <<"Open", "LoadHydraulics", "SolveQuality",
                        "WriteReport", "Close">>

\* Load and solve exclude each other, LoadHydraulics is issued once and
\* before any SaveHydraulics or SolveQuality.
LoadSolveExclusive ==
    /\ use_hyd => ~Issued("ConfigureDemand") /\ ~Issued("SolveHydraulics")
    /\ ~use_hyd => ~Issued("LoadHydraulics")
    /\ Cardinality(Indices("LoadHydraulics")) <= 1
    /\ (AllIssued /\ use_hyd) => Cardinality(Indices("LoadHydraulics")) = 1
    /\ \A i \in Indices("LoadHydraulics") : \A j \in 1..(i - 1) :
          calls[j].stage \notin {"SaveHydraulics", "SolveQuality"}

\* C3: with use_hyd, ConfigureDemand and SolveHydraulics are never issued
\* and LoadHydraulics is issued exactly once, after Open and before any
\* SaveHydraulics or SolveQuality; without use_hyd LoadHydraulics is never
\* issued.
C3_LoadReplacesSolve ==
    /\ LoadSolveExclusive
    /\ \A i \in Indices("LoadHydraulics") : \E j \in 1..(i - 1) :
          calls[j].stage = "Open"

\* C4: Close is issued exactly once per run and is the last stage call,
\* whatever code an earlier stage returned; before the last stage it has
\* not been issued.
C4_CloseOnceLast ==
    /\ Cardinality(Indices("Close")) <= 1
    /\ AllIssued =>
          /\ Indices("Close") = {Len(calls)}
          /\ calls[Len(calls)].ph = ph
    /\ ~AllIssued => ~Issued("Close")

\* a run in which Open returned the fatal code 200 and Close was issued
C4_Witness ==
    /\ AllIssued
    /\ calls[1].stage = "Open" /\ calls[1].code = CodeFatal
    /\ calls[Len(calls)].stage = "Close"
    /\ \A i \in 2..Len(calls) : calls[i].code = CodeOk

\* C5 (as stated): once all stages are issued, errcode is the maximum of the
\* codes the stages returned.
C5_ErrcodeIsMax ==
    AllIssued => errcode = MaxOf(StageCodes)

\* C5 (amended): once all stages are issued, errcode is the code returned by
\* Close, the last stage issued.
C5_ErrcodeIsCloseCode ==
    AllIssued =>
        /\ calls[Len(calls)].stage = "Close"
        /\ errcode = calls[Len(calls)].code

\* Open returned 200, every later stage 0: errcode is 0, the maximum 200
C5_Witness ==
    /\ AllIssued
    /\ calls[1].stage = "Open" /\ calls[1].code = CodeFatal
    /\ \A i \in 2..Len(calls) : calls[i].code = CodeOk
    /\ errcode = CodeOk
    /\ MaxOf(StageCodes) = CodeFatal

\* hydraulics and results of a fresh solve of the simulator's network
FreshDemand ==
    IF IsPDD
    THEN [model |-> PddModel, pmin |-> pmin, pnom |-> pnom,
          exp |-> PddExponent]
    ELSE DefaultDemand
FreshHyd == HydData(FreshDemand)
FreshResult == ResData(FreshHyd)
\* the run loads a hydraulics file that a fresh solve of the same inputs saved
LoadsSavedHyd ==
    /\ solver = "deterministic"
    /\ use_hyd
    /\ pc \in {"save", "qual", "report", "close", "read"} \/ Returned
    /\ files[hydfile] = FreshHyd

\* C6: with a deterministic solver, a run that loads the hydraulics file a
\* fresh run saved (default path or explicit hydfile) solves quality on an
\* opened project holding those hydraulics and returns the result set of a
\* fresh solve.
C6_RoundTrip ==
    /\ (LoadsSavedHyd /\ pc \in {"save", "qual"})
          => Proj.opened /\ Proj.hyd = FreshHyd
    /\ (LoadsSavedHyd /\ Returned) => result = FreshResult

\* The round trip through the default path: when the loading run issued
\* Open, it returns the result set of a fresh solve.
RoundTripDefaultPath ==
    /\ (LoadsSavedHyd /\ pc \in {"save", "qual"} /\ Issued("Open"))
          => Proj.opened /\ Proj.hyd = FreshHyd
    /\ (LoadsSavedHyd /\ Returned /\ Issued("Open")) => result = FreshResult

\* C7: SaveHydraulics is issued iff save_hyd, at most once, directly after
\* the hydraulics stage (LoadHydraulics or SolveHydraulics) whatever code
\* that stage returned, and directly before SolveQuality; with use_hyd it
\* follows LoadHydraulics on the same path.
C7_SaveIffRequested ==
    /\ Issued("SaveHydraulics") => save_hyd
    /\ Cardinality(Indices("SaveHydraulics")) <= 1
    /\ (save_hyd /\ (pc \in {"qual", "report", "close"} \/ AllIssued))
          => Issued("SaveHydraulics")
    /\ \A i \in Indices("SaveHydraulics") :
          /\ i > 1
          /\ calls[i - 1].stage =
                IF use_hyd THEN "LoadHydraulics" ELSE "SolveHydraulics"
          /\ use_hyd => calls[i - 1].args = calls[i].args
          /\ \A j \in 1..(i - 1) : calls[j].stage # "SolveQuality"
          /\ i < Len(calls) => calls[i + 1].stage = "SolveQuality"

\* use_hyd and save_hyd together, LoadHydraulics returned a fatal code and
\* SaveHydraulics was issued after it on the same path
C7_Witness ==
    /\ AllIssued /\ use_hyd /\ save_hyd
    /\ \E i \in Indices("SaveHydraulics") :
          /\ calls[i - 1].stage = "LoadHydraulics"
          /\ calls[i - 1].code = CodeFatal
          /\ calls[i - 1].args = calls[i].args
          /\ calls[i + 1].stage = "SolveQuality"

\* C8: the reader is invoked exactly once per run, after Close, with
\* file_prefix + ".bin" (the output path passed to Open), whatever codes the
\* stages returned, and run_sim returns what the reader returns.
C8_ReadOnceAfterClose ==
    /\ ~Returned => reads = <<>> /\ result = NoResult
    /\ Returned =>
          /\ reads = <<file_prefix \o ".bin">>
          /\ calls[Len(calls)].stage = "Close"
          /\ \A i \in Indices("Open") : calls[i].args[3] = reads[1]
          /\ result = ReaderRead(reads[1])
          /\ result # NoResult

\* a run in which a stage returned a fatal code and the reader was invoked
C8_Witness ==
    /\ Returned /\ HasFatal
    /\ reads = <<"net.bin">>
    /\ Issued("Open")
    /\ result = DecodeError

\* C9: after a run, Warnflag is true iff some stage returned a code in
\* 1..99 and Errflag is true iff some stage returned a code >= 100.
C9_FlagsFollowCodes ==
    AllIssued =>
        /\ Warnflag <=> HasWarning
        /\ Errflag <=> HasFatal

\* C10: at every point of a run errcodelist ends with the codes of the
\* stages issued so far, in issue order.
C10_HistoryRecorded ==
    /\ Len(errcodelist) >= Len(calls)
    /\ SubSeq(errcodelist, Len(errcodelist) - Len(calls) + 1,
              Len(errcodelist)) = StageCodes

\* errcodelist only grows and its entries never change
HistoryOnlyGrows ==
    [][/\ Len(errcodelist') >= Len(errcodelist)
       /\ SubSeq(errcodelist', 1, Len(errcodelist)) = errcodelist]_vars

\* ------------------------------------------------ demand mode, handles
StageNames ==
    {"Open", "LoadHydraulics", "ConfigureDemand", "SolveHydraulics",
     "SaveHydraulics", "SolveQuality", "WriteReport", "Close"}
\* the spellings of 'PDD' among the modes, compared without case
PDDSpellings == {ModePDD, Modepdd}
\* the stage sequence of a run as its arguments and the mode decide it
ConfigStages ==
    IfSeq(hydfile_arg = None, <<"Open">>)
        \o (IF use_hyd THEN <<"LoadHydraulics">>
            ELSE IfSeq(mode \in PDDSpellings, <<"ConfigureDemand">>)
                    \o <<"SolveHydraulics">>)
        \o IfSeq(save_hyd, <<"SaveHydraulics">>)
        \o <<"SolveQuality", "WriteReport", "Close">>
\* the run was cut short by an exception
Raised == pc = "raised"

\* C11 (as stated): a simulator with the default mode, run with use_hyd =
\* false, issues no ConfigureDemand and goes from Open directly to
\* SolveHydraulics.
C11_DefaultDemandDriven ==
    (mode = ModeDefault /\ ~use_hyd) =>
        /\ ~Issued("ConfigureDemand")
        /\ \A i \in Indices("Open") :
              i < Len(calls) => calls[i + 1].stage = "SolveHydraulics"

\* C11 (amended): the default mode is 'PDD': a simulator with the default
\* mode, run with use_hyd = false, issues ConfigureDemand exactly once,
\* directly before SolveHydraulics and, when Open is issued, directly after
\* Open.
C11_DefaultPressureDependent ==
    (mode = ModeDefault /\ ~use_hyd) =>
        /\ Cardinality(Indices("ConfigureDemand")) <= 1
        /\ AllIssued => Issued("ConfigureDemand")
        /\ \A i \in Indices("SolveHydraulics") :
              i > 1 /\ calls[i - 1].stage = "ConfigureDemand"
        /\ \A i \in Indices("Open") :
              i < Len(calls) => calls[i + 1].stage = "ConfigureDemand"

\* a default-mode run that went Open, ConfigureDemand, SolveHydraulics
C11_Witness ==
    /\ AllIssued /\ mode = ModeDefault /\ ~use_hyd
    /\ Len(calls) >= 3
    /\ calls[1].stage = "Open"
    /\ calls[2].stage = "ConfigureDemand"
    /\ calls[3].stage = "SolveHydraulics"

\* C12: when run_sim is left, by return or by an exception of a stage call,
\* every handle created has been closed.
C12_HandleReleased ==
    pc \in {"idle", "raised"} =>
        \A h \in DOMAIN projects : projects[h].closed

\* On the path where run_sim returns, the handle of the run has been closed.
HandleReleasedOnReturn ==
    Returned => projects[ph].closed /\ ~projects[ph].opened

\* C13: whenever a stage call has returned, errcode is the code returned by
\* the most recently issued stage, ConfigureDemand included.
C13_ErrcodeIsLastCode ==
    calls # <<>> => errcode = calls[Len(calls)].code

\* errcode is the code of the most recent stage other than ConfigureDemand
ErrcodeIsLastRecorded ==
    \A i \in DOMAIN calls :
        (/\ calls[i].stage # "ConfigureDemand"
         /\ \A j \in (i + 1)..Len(calls) : calls[j].stage = "ConfigureDemand")
            => errcode = calls[i].code

\* C14: the stages issued are those the configuration decides, whatever
\* codes the stages return: at every point of a run the stages issued are
\* the first ones of that sequence, after the last stage they are all of
\* it, and no code makes run_sim raise.
C14_StagesDependOnConfigOnly ==
    /\ Len(calls) <= Len(ConfigStages)
    /\ Stages = SubSeq(ConfigStages, 1, Len(calls))
    /\ AllIssued => Stages = ConfigStages
    /\ solver = "free" => ~Raised

\* every stage of a saving pressure-dependent run returned the fatal code
C14_Witness ==
    /\ Returned /\ solver = "free"
    /\ Len(calls) = 7
    /\ \A i \in DOMAIN calls : calls[i].code = CodeFatal

\* C15: ConfigureDemand is issued iff use_hyd is false and the mode is
\* 'PDD' in any case, at most once, directly before SolveHydraulics, with
\* the pressure-dependent selector, the simulator's pmin and pnom and the
\* exponent 0.5.
C15_ConfigureDemandIffPDD ==
    /\ Issued("ConfigureDemand") => ~use_hyd /\ mode \in PDDSpellings
    /\ Cardinality(Indices("ConfigureDemand")) <= 1
    /\ (/\ ~use_hyd /\ mode \in PDDSpellings
        /\ pc \in {"solve", "save", "qual", "report", "close"} \/ AllIssued)
          => Issued("ConfigureDemand")
    /\ \A i \in Indices("ConfigureDemand") :
          /\ calls[i].args = <<PddModel, pmin, pnom, PddExponent>>
          /\ i < Len(calls) => calls[i + 1].stage = "SolveHydraulics"
    /\ \A i \in Indices("SolveHydraulics") :
          mode \in PDDSpellings =>
              i > 1 /\ calls[i - 1].stage = "ConfigureDemand"

\* a run of a simulator with mode 'pdd' and pmin 30.00 that configured the
\* demand model before solving
C15_Witness ==
    /\ AllIssued /\ mode = Modepdd /\ pmin = 3000
    /\ \E i \in Indices("ConfigureDemand") :
          /\ calls[i].args = <<1, 3000, 2196, 50>>
          /\ calls[i + 1].stage = "SolveHydraulics"

\* the paths passed to Open, LoadHydraulics and SaveHydraulics
PathsDerived ==
    /\ \A i \in Indices("Open") :
          calls[i].args = <<file_prefix \o ".inp", file_prefix \o ".rpt",
                            file_prefix \o ".bin">>
    /\ \A i \in Indices("LoadHydraulics") \cup Indices("SaveHydraulics") :
          calls[i].args =
              <<IF hydfile_arg # None THEN hydfile_arg
                ELSE file_prefix \o ".hyd">>

\* C16: Open receives file_prefix + .inp, .rpt, .bin; LoadHydraulics and
\* SaveHydraulics receive the explicit hydfile, else file_prefix + .hyd;
\* an explicit hydfile leaves every other stage of the run unchanged.
C16_PathDerivation ==
    /\ PathsDerived
    /\ AllIssued => Stages = IF use_hyd THEN LoadStages ELSE FreshStages

\* every call of a run is on the handle the run created, and none follows
\* Close
CallsOnOwnHandle ==
    /\ calls # <<>> => ph = Len(projects)
    /\ \A i \in DOMAIN calls : calls[i].ph = ph
    /\ \A i \in Indices("Close") : i = Len(calls)

\* C17: each run issues its calls on its own fresh handle only, none after
\* Close, and Open is never issued while a handle of an earlier run is
\* open: at most one handle is open at any time.
C17_HandleOwnership ==
    /\ CallsOnOwnHandle
    /\ Issued("Open") => \A h \in 1..(ph - 1) : ~projects[h].opened
    /\ Cardinality({h \in DOMAIN projects : projects[h].opened}) <= 1

\* C18: within a run every stage kind is issued at most once, whatever
\* codes are returned.
C18_NoRetries ==
    \A st \in StageNames : Cardinality(Indices(st)) <= 1

\* a run whose hydraulics solve returned a fatal code and was not repeated
C18_Witness ==
    /\ AllIssued
    /\ \E i \in Indices("SolveHydraulics") :
          calls[i].code = CodeFatal /\ calls[i + 1].stage = "SaveHydraulics"

\* C19: ConfigureDemand is never issued with pnom below pmin.
C19_NominalAtLeastMinimum ==
    \A i \in Indices("ConfigureDemand") :
        calls[i].args[3] >= calls[i].args[2]

====
